---- MODULE Spec2Model ----
(***************************************************************************)
(* Migration client (server/tool/src/upgrade.ts) over a document store,    *)
(* the index stage state tracker (loadIndexStageStage), the walk over the  *)
(* full-text contexts of a class hierarchy (traverseFullTextContexts) and  *)
(* the rpc handler of the account service (pods/account/src/index.ts).     *)
(*                                                                         *)
(* Strings are sequences of one-character strings.  A document is a        *)
(* function from field names to values; an absent field is a name outside  *)
(* its DOMAIN.  A collection is the sequence of its documents in natural   *)
(* (insertion) order.                                                      *)
(*                                                                         *)
(* An async method is one action per await: between two awaits other calls *)
(* run.  A store cursor runs its query at its first read and answers from  *)
(* what matched then.                                                      *)
(***************************************************************************)
EXTENDS Integers, Sequences, FiniteSets, TLC

VARIABLES
  db,       \* Domain -> sequence of documents
  last,     \* the last completed MigrationClient call: arguments, pre-state, result
  mv,       \* the move() calls in progress: the await each is at, cursor, counters
  it,       \* the traverse() iterator: cursor, the next() calls and their awaits
  stages,   \* persisted IndexStageState records (storage of the DbAdapter)
  held,     \* IndexStageState values the caller w1 holds (returned earlier)
  slast,    \* the last loadIndexStageStage call returned: arguments, pre-state, result
  tq,       \* a translateQuery call: the query, a probe document, the filter
  ft,       \* a traverseFullTextContexts call: hierarchy, class, visits, result
  rpc,      \* the account rpc handler: the mongo client, the requests in hand
  wr        \* loadIndexStageStage calls in flight between their store calls

vars == <<db, last, mv, it, stages, held, slast, tq, ft, rpc, wr>>

\* ------------------------------------------------------------------ bounds
MaxDocs == 2     \* document ids per collection
MaxSize == 2     \* largest batch size passed to next(size)
MaxIndex == 3    \* cap of the stage index counter

\* ------------------------------------------------------------ value model
Null == <<"null">>          \* the null value (no string has this shape)
HashKey == "%hash%"         \* the freshness marker field
Hash1 == <<"#">>            \* some non-null marker value
Domains == {"A", "B"}
StrAB == <<"a", "b">>
StrAc == <<"A", "c">>
StrX == <<"x">>
AVals == {StrAB, StrAc}

Put(d, k, v) == [x \in (DOMAIN d) \cup {k} |-> IF x = k THEN v ELSE d[x]]
Del(d, k) == [x \in (DOMAIN d) \ {k} |-> d[x]]
Has(d, k) == k \in DOMAIN d

RECURSIVE SelectIdx(_, _, _)
\* indexes i (ascending) of s with P[i]
SelectIdx(s, P, i) ==
  IF i > Len(s) THEN <<>>
  ELSE (IF P[i] THEN <<i>> ELSE <<>>) \o SelectIdx(s, P, i + 1)

SeqToSet(s) == {s[i] : i \in 1..Len(s)}

\* --------------------------------------------------------- translateQuery
\* A query value is val(v) (a scalar or null) or obj(keys, vals): an object
\* with its keys in insertion order.
QVal(v) == [t |-> "val", v |-> v, keys |-> <<>>, vals |-> <<>>]
QObj(keys, vals) == [t |-> "obj", v |-> Null, keys |-> keys, vals |-> vals]

RECURSIVE split(_, _, _)
\* pattern.split(sep): the segments of s between occurrences of sep;
\* acc is the segment being read
split(s, sep, acc) ==
  IF s = <<>> THEN <<acc>>
  ELSE IF Head(s) = sep THEN <<acc>> \o split(Tail(s), sep, <<>>)
       ELSE split(Tail(s), sep, Append(acc, Head(s)))

RECURSIVE join(_, _)
\* segments.join(glue)
join(segs, glue) ==
  IF Len(segs) = 0 THEN <<>>
  ELSE IF Len(segs) = 1 THEN segs[1]
       ELSE segs[1] \o glue \o join(Tail(segs), glue)

likeRegex(pattern) == <<"^">> \o join(split(pattern, "%", <<>>), <<".", "*">>) \o <<"$">>

translateValue(value) ==
  IF value.t = "obj" /\ Len(value.keys) > 0 /\ value.keys[1] = "$like"
  THEN QObj(<<"$regex", "$options">>, <<likeRegex(value.vals[1]), <<"i">> >>)
  ELSE value

translateQuery(query) == [key \in DOMAIN query |-> translateValue(query[key])]

\* ------------------------------------------------------------ store: match
lower(c) == IF c = "A" THEN "a" ELSE IF c = "B" THEN "b" ELSE IF c = "C" THEN "c" ELSE c

RECURSIVE reAtoms(_)
\* the atoms of a regular expression body: a character (or '.') with or
\* without a following '*'
reAtoms(cs) ==
  IF cs = <<>> THEN <<>>
  ELSE IF Len(cs) >= 2 /\ cs[2] = "*"
       THEN <<[c |-> cs[1], star |-> TRUE]>> \o reAtoms(SubSeq(cs, 3, Len(cs)))
       ELSE <<[c |-> cs[1], star |-> FALSE]>> \o reAtoms(Tail(cs))

AnyStar == [c |-> ".", star |-> TRUE]

\* '^' and '$' anchor the expression; without one the match may start
\* (end) anywhere
reProgram(re) ==
  LET noStart == IF re # <<>> /\ Head(re) = "^" THEN Tail(re) ELSE re
      anchoredStart == re # <<>> /\ Head(re) = "^"
      anchoredEnd == noStart # <<>> /\ noStart[Len(noStart)] = "$"
      body == IF anchoredEnd THEN SubSeq(noStart, 1, Len(noStart) - 1) ELSE noStart
  IN  (IF anchoredStart THEN <<>> ELSE <<AnyStar>>) \o reAtoms(body)
        \o (IF anchoredEnd THEN <<>> ELSE <<AnyStar>>)

atomOk(at, ch, ci) ==
  at.c = "." \/ (IF ci THEN lower(at.c) = lower(ch) ELSE at.c = ch)

RECURSIVE reMatch(_, _, _)
reMatch(prog, s, ci) ==
  IF prog = <<>> THEN s = <<>>
  ELSE IF Head(prog).star
       THEN reMatch(Tail(prog), s, ci)
            \/ (s # <<>> /\ atomOk(Head(prog), Head(s), ci) /\ reMatch(prog, Tail(s), ci))
       ELSE s # <<>> /\ atomOk(Head(prog), Head(s), ci) /\ reMatch(Tail(prog), Tail(s), ci)

regexTest(re, options, s) == reMatch(reProgram(re), s, "i" \in SeqToSet(options))

KnownOperators == {"$regex", "$options", "$ne"}

\* the store rejects a filter that uses an operator it does not know
filterValid(filter) ==
  \A k \in DOMAIN filter :
    filter[k].t = "obj" => SeqToSet(filter[k].keys) \subseteq KnownOperators

\* {k: null} also matches a document without field k; _id is never null
fieldEq(d, k, v) ==
  IF k = "_id" THEN Has(d, k) /\ d[k] = v
  ELSE IF v = Null THEN ~Has(d, k) \/ d[k] = Null ELSE Has(d, k) /\ d[k] = v

optionsOf(fv) ==
  IF \E i \in 1..Len(fv.keys) : fv.keys[i] = "$options"
  THEN fv.vals[CHOOSE i \in 1..Len(fv.keys) : fv.keys[i] = "$options"]
  ELSE <<>>

opHolds(d, k, fv, i) ==
  CASE fv.keys[i] = "$regex" ->
         Has(d, k) /\ d[k] # Null /\ regexTest(fv.vals[i], optionsOf(fv), d[k])
    [] fv.keys[i] = "$ne" -> ~fieldEq(d, k, fv.vals[i])
    [] OTHER -> TRUE

matches(d, filter) ==
  \A k \in DOMAIN filter :
    IF filter[k].t = "val" THEN fieldEq(d, k, filter[k].v)
    ELSE \A i \in 1..Len(filter[k].keys) : opHolds(d, k, filter[k], i)

matchIdx(coll, filter) ==
  SelectIdx(coll, [i \in 1..Len(coll) |-> matches(coll[i], filter)], 1)

storeFind(coll, filter) ==
  LET ix == matchIdx(coll, filter) IN [j \in 1..Len(ix) |-> coll[ix[j]]]

idsOf(coll) == {coll[i]["_id"] : i \in 1..Len(coll)}

\* ----------------------------------------------------------- store: write
\* an update specification is a function from operator names ($set, $unset)
\* to field maps; the store rejects one whose operators name the same path
updateValid(spec) ==
  ~(Has(spec, "$set") /\ Has(spec, "$unset")
      /\ (DOMAIN spec["$set"]) \cap (DOMAIN spec["$unset"]) # {})

applyUpdate(d, spec) ==
  LET sets == IF Has(spec, "$set") THEN spec["$set"] ELSE <<>>
      unsets == IF Has(spec, "$unset") THEN DOMAIN spec["$unset"] ELSE {}
      keys == ((DOMAIN d) \cup (DOMAIN sets)) \ unsets
  IN  [k \in keys |-> IF k \in DOMAIN sets THEN sets[k] ELSE d[k]]

\* mutant: the write stops after the first matching document
updateMany_first(coll, filter, spec) ==
  [i \in 1..Len(coll) |->
     IF matches(coll[i], filter) /\ \A j \in 1..(i - 1) : ~matches(coll[j], filter)
     THEN applyUpdate(coll[i], spec) ELSE coll[i]]

\* updateMany: every matching document is rewritten
updateMany(coll, filter, spec) ==
  [i \in 1..Len(coll) |->
     IF matches(coll[i], filter) THEN applyUpdate(coll[i], spec) ELSE coll[i]]

\* updateOne: the first matching document (natural order) is rewritten
updateOne(coll, filter, spec) ==
  LET ix == matchIdx(coll, filter)
  IN  IF ix = <<>> THEN coll
      ELSE [i \in 1..Len(coll) |->
              IF i = ix[1] THEN applyUpdate(coll[i], spec) ELSE coll[i]]

changed(pre, post) == Cardinality({i \in 1..Len(pre) : pre[i] # post[i]})

Error == [error |-> TRUE]
Result(m, u) == [error |-> FALSE, matched |-> m, updated |-> u]

\* ------------------------------------------------- MigrateClientImpl.update
OperatorKeys == {"$set", "$unset"}

\* isOperator (core): a non-empty object all of whose keys start with '$'
isOperator(o) == (DOMAIN o) # {} /\ (DOMAIN o) \subseteq OperatorKeys

HashClear == [k \in {HashKey} |-> Null]

\* mutant: the plain-map branch lets the caller's own marker value win
updateSpecOf_keepMarker(operations) ==
  IF isOperator(operations)
  THEN IF Has(operations, "$set")
       THEN Put(operations, "$set", Put(operations["$set"], HashKey, Null))
       ELSE Put(operations, "$set", HashClear)
  ELSE [k \in {"$set"} |->
          IF Has(operations, HashKey) THEN operations ELSE Put(operations, HashKey, Null)]

\* the update specification update() hands to updateMany
updateSpecOf(operations) ==
  IF isOperator(operations)
  THEN IF Has(operations, "$set")
       THEN Put(operations, "$set", Put(operations["$set"], HashKey, Null))
       ELSE Put(operations, "$set", HashClear)
  ELSE [k \in {"$set"} |-> Put(operations, HashKey, Null)]

Idle == [pc |-> "idle"]
\* move() calls that may run together: a call gives the event loop back at
\* every await, and nothing keeps a second call from being made meanwhile
Movers == {"m1", "m2"}
NoMoves == [m \in Movers |-> Idle]
NoIter == [st |-> "none"]
NoCall == [op |-> "none"]

Update(domain, query, operations) ==
  LET filter == translateQuery(query)
      spec == updateSpecOf(operations)
      pre == db[domain]
      post == updateMany(pre, filter, spec)
      ok == filterValid(filter) /\ updateValid(spec)
  IN  /\ db' = IF ok THEN [db EXCEPT ![domain] = post] ELSE db
      /\ last' = [op |-> "update", domain |-> domain, query |-> query,
                  operations |-> operations, pre |-> pre, touched |-> {},
                  fault |-> FALSE,
                  result |-> IF ok THEN Result(Len(matchIdx(pre, filter)), changed(pre, post))
                             ELSE Error]
      /\ UNCHANGED <<mv, it, stages, held, slast, tq, ft, rpc, wr>>

\* --------------------------------------------------- MigrateClientImpl.bulk
\* the write operations bulk() hands to bulkWrite
bulkOps(items) ==
  [i \in 1..Len(items) |->
     [filter |-> translateQuery(items[i].filter),
      update |-> [k \in {"$set"} |-> Put(items[i].update, HashKey, Null)]]]

RECURSIVE bulkWrite(_, _)
\* ordered bulkWrite of updateOne operations: each is applied to the result
\* of the ones before it, and the first rejected one ends the batch;
\* touched collects the ids of the documents the operations selected
bulkWrite(acc, ops) ==
  IF ops = <<>> \/ acc.error THEN acc
  ELSE LET o == Head(ops)
           ix == matchIdx(acc.coll, o.filter)
           post == updateOne(acc.coll, o.filter, o.update)
       IN  IF ~(filterValid(o.filter) /\ updateValid(o.update))
           THEN [acc EXCEPT !.error = TRUE]
           ELSE bulkWrite(
                  [coll |-> post,
                   matched |-> acc.matched + (IF ix = <<>> THEN 0 ELSE 1),
                   modified |-> acc.modified + changed(acc.coll, post),
                   touched |-> acc.touched \cup
                                 (IF ix = <<>> THEN {} ELSE {acc.coll[ix[1]]["_id"]}),
                   error |-> FALSE],
                  Tail(ops))

\* the store rejects an empty batch before it writes anything
Bulk(domain, items) ==
  LET pre == db[domain]
      r == bulkWrite([coll |-> pre, matched |-> 0, modified |-> 0, touched |-> {},
                      error |-> items = <<>>], bulkOps(items))
  IN  /\ db' = [db EXCEPT ![domain] = r.coll]
      /\ last' = [op |-> "bulk", domain |-> domain, query |-> <<>>,
                  operations |-> items, pre |-> pre, touched |-> r.touched,
                  fault |-> FALSE,
                  result |-> IF r.error THEN Error ELSE Result(r.matched, r.modified)]
      /\ UNCHANGED <<mv, it, stages, held, slast, tq, ft, rpc, wr>>

\* ------------------------------------------------------------------ inputs
NoHash == <<"absent">>
mkDoc(id, a, h) ==
  IF h = NoHash THEN [k \in {"_id", "a"} |-> IF k = "_id" THEN id ELSE a]
  ELSE [k \in {"_id", "a", HashKey} |-> IF k = "_id" THEN id ELSE IF k = "a" THEN a ELSE h]

DocChoices(id, hs) == {<<>>} \cup {<<mkDoc(id, a, h)>> : a \in AVals, h \in hs}

RECURSIVE CollsOf(_, _)
\* collections holding some of the documents 1..n, in id order, with markers
\* drawn from hs
CollsOf(n, hs) ==
  IF n = 0 THEN {<<>>} ELSE {c \o x : c \in CollsOf(n - 1, hs), x \in DocChoices(n, hs)}

CollsUpTo(n) == CollsOf(n, {NoHash, Hash1})

QAll == <<>>
QEq(k, v) == [x \in {k} |-> QVal(v)]
QOp(k, op, v) == [x \in {k} |-> QObj(<<op>>, <<v>>)]
Queries == {QAll, QEq("a", StrAB), QOp("a", "$like", <<"a", "%">>), QOp("a", "$ne", StrAB)}

Field(k, v) == [x \in {k} |-> v]
PlainUpdates == {Field("a", StrX), Put(Field("a", StrAB), HashKey, Hash1)}
OperatorUpdates ==
  {Field("$set", Put(Field("a", StrX), HashKey, Hash1)),
   Field("$unset", Field("a", <<>>)),
   Field("$unset", Field(HashKey, <<>>))}
Updates == PlainUpdates \cup OperatorUpdates

Item(q, u) == [filter |-> q, update |-> u]
BulkInputs ==
  {<<>>} \cup {<<Item(q, u)>> : q \in Queries, u \in PlainUpdates}
    \cup {<<Item(QEq("a", StrAB), Field("a", StrX)), Item(QEq("a", StrX), Field("a", StrAB))>>,
          <<Item(QEq("a", StrAc), Field("a", StrAB)), Item(QEq("a", StrAB), Field("a", StrX))>>}

\* ------------------------------------------- specification: update and bulk
InitUpdate ==
  /\ db \in {[d \in Domains |-> IF d = "A" THEN c ELSE <<>>] : c \in CollsUpTo(MaxDocs)}
  /\ last = NoCall
  /\ mv = NoMoves
  /\ it = NoIter
  /\ stages = <<>>
  /\ held = {}
  /\ slast = NoCall
  /\ tq = NoCall /\ ft = NoCall /\ rpc = NoCall /\ wr = NoCall

NextUpdate ==
  \/ \E domain \in Domains, query \in Queries, operations \in Updates :
       Update(domain, query, operations)
  \/ \E domain \in Domains, items \in BulkInputs : Bulk(domain, items)

SpecUpdate == InitUpdate /\ [][NextUpdate]_vars

\* ------------------------------------------------ claims on update and bulk
hashNull(d) == Has(d, HashKey) /\ d[HashKey] = Null

returned(call) == call.op # "none" /\ ~call.result.error

\* C1 (as stated): after update(collection, query, update) every document
\* that matched query has its freshness marker null, and after
\* bulk(collection, items) every document that matched some item's filter
\* has its freshness marker null.
C1_Original ==
  /\ (last.op = "update" /\ returned(last)) =>
       \A i \in 1..Len(last.pre) :
         matches(last.pre[i], translateQuery(last.query)) => hashNull(db[last.domain][i])
  /\ (last.op = "bulk" /\ returned(last)) =>
       \A i \in 1..Len(last.pre) :
         (\E j \in 1..Len(last.operations) :
            matches(last.pre[i], translateQuery(last.operations[j].filter)))
           => hashNull(db[last.domain][i])

\* C1 (amended): after a returning update(collection, query, update) every
\* document that matched query has its freshness marker null, whatever the
\* shape of the update; after a returning bulk(collection, items) every
\* document an item's updateOne selected (one document per item: the first
\* that matches the item's filter when the item is applied) has its
\* freshness marker null.
C1_MarkerCleared ==
  /\ (last.op = "update" /\ returned(last)) =>
       \A i \in 1..Len(last.pre) :
         matches(last.pre[i], translateQuery(last.query)) => hashNull(db[last.domain][i])
  /\ (last.op = "bulk" /\ returned(last)) =>
       /\ \A i \in 1..Len(last.pre) :
            last.pre[i]["_id"] \in last.touched => hashNull(db[last.domain][i])
       /\ LET ix == matchIdx(last.pre, translateQuery(last.operations[1].filter))
          IN  ix # <<>> => hashNull(db[last.domain][ix[1]])

\* a bulk call returned after its item selected a document carrying a marker,
\* while a second document matching the same filter kept its marker
C1_Witness ==
  /\ last.op = "bulk" /\ returned(last)
  /\ \E i, j \in 1..Len(last.pre) :
       /\ i # j
       /\ last.pre[i]["_id"] \in last.touched
       /\ Has(last.pre[i], HashKey) /\ last.pre[i][HashKey] = Hash1
       /\ matches(last.pre[j], translateQuery(last.operations[1].filter))
       /\ hashNull(db[last.domain][i])
       /\ ~hashNull(db[last.domain][j])

\* ------------------------------------------------------- store: cursors
Ascending == 1       \* SortingOrder.Ascending
Descending == -1     \* SortingOrder.Descending

RECURSIVE sortById(_, _)
\* the store's sort on _id: order 1 ascending, -1 descending
sortById(s, order) ==
  IF Len(s) <= 1 THEN s
  ELSE LET rest == sortById(Tail(s), order)
           d == Head(s)
           n == Cardinality({i \in 1..Len(rest) : order * rest[i]["_id"] < order * d["_id"]})
       IN  SubSeq(rest, 1, n) \o <<d>> \o SubSeq(rest, n + 1, Len(rest))

\* a store cursor: filter, then sort, then limit (limit 0 is no limit)
cursorDocs(coll, filter, c) ==
  LET found == storeFind(coll, filter)
      sorted == IF c.sort = <<>> THEN found ELSE sortById(found, c.sort["_id"])
  IN  IF c.limit > 0 THEN SubSeq(sorted, 1, IF c.limit < Len(sorted) THEN c.limit ELSE Len(sorted))
      ELSE sorted

NoLimit == [limit |-> 0, sort |-> <<>>]

\* what a cursor has yet to deliver: the store is asked when the cursor is
\* first read and answers with the documents the filter matches then, sorted
\* and limited; later reads are served from that answer
cursorRest(c, coll, filter, opts) == IF c.fetched THEN c.buf ELSE cursorDocs(coll, filter, opts)

\* await cursor.next(): the next document, or null at the end
cursorNext(rest) ==
  IF rest = <<>> THEN [null |-> TRUE] ELSE [null |-> FALSE, doc |-> Head(rest)]

\* --------------------------------------------------- MigrateClientImpl.move
\* insertOne: the store rejects a document whose _id the collection holds
insertOk(coll, doc) == doc["_id"] \notin idsOf(coll)
insertOne(coll, doc) == Append(coll, doc)

deleteMany(coll, filter) ==
  LET ix == SelectIdx(coll, [i \in 1..Len(coll) |-> ~matches(coll[i], filter)], 1)
  IN  [j \in 1..Len(ix) |-> coll[ix[j]]]

\* mutant: the marker of a moved document is kept
stripHash_keep(doc) == doc

\* if ('%hash%' in doc) delete doc['%hash%']
stripHash(doc) == IF Has(doc, HashKey) THEN Del(doc, HashKey) ELSE doc


\* mutant: the loop is left after the first document
moveLoopDone_early(m, d) == d.null \/ mv[m].pos >= 1

\* (doc = await cursor.next()) == null
moveLoopDone(m, d) == d.null

\* the call is between two of its awaits
MoveBusy(m) == mv[m].pc \in {"next", "insert", "delete"}

\* move() up to its first await (lines 165-173): the cursor is made, the
\* store is not asked yet
MoveStart(m, sourceDomain, query, targetDomain) ==
  /\ ~MoveBusy(m)
  /\ mv' = [mv EXCEPT ![m] =
              [pc |-> "next", src |-> sourceDomain, tgt |-> targetDomain, query |-> query,
               q |-> translateQuery(query), fetched |-> FALSE, buf |-> <<>>, doc |-> <<>>,
               pos |-> 0, pre |-> db[sourceDomain], preTgt |-> db[targetDomain],
               result |-> Result(0, 0)]]
  /\ UNCHANGED <<db, last, it, stages, held, slast, tq, ft, rpc, wr>>

\* await cursor.next() answers (line 174): a rejected filter raises out of
\* move(); null ends the loop and the call goes on to deleteMany; a document
\* has its marker stripped (175-177) and the call goes on to insertOne
MoveNext(m) ==
  /\ mv[m].pc = "next"
  /\ LET c == mv[m]
         rest == cursorRest(c, db[c.src], c.q, NoLimit)
         d == cursorNext(rest)
     IN  mv' = [mv EXCEPT ![m] =
                  IF ~c.fetched /\ ~filterValid(c.q)
                  THEN [c EXCEPT !.pc = "failed", !.result = Error]
                  ELSE IF moveLoopDone(m, d)
                       THEN [c EXCEPT !.pc = "delete", !.fetched = TRUE, !.buf = <<>>]
                       ELSE [c EXCEPT !.pc = "insert", !.fetched = TRUE, !.buf = Tail(rest),
                                      !.doc = stripHash(d.doc)]]
  /\ UNCHANGED <<db, last, it, stages, held, slast, tq, ft, rpc, wr>>

\* await target.insertOne(doc) answers (lines 178-180): the document read
\* earlier is inserted as it was read; a rejected insert raises out of move()
MoveInsert(m) ==
  /\ mv[m].pc = "insert"
  /\ LET c == mv[m]
     IN  IF insertOk(db[c.tgt], c.doc)
         THEN /\ db' = [db EXCEPT ![c.tgt] = insertOne(@, c.doc)]
              /\ mv' = [mv EXCEPT ![m] =
                          [c EXCEPT !.pc = "next", !.pos = @ + 1,
                                    !.result = Result(@.matched + 1, @.updated + 1)]]
         ELSE /\ db' = db
              /\ mv' = [mv EXCEPT ![m] = [c EXCEPT !.pc = "failed", !.result = Error]]
  /\ UNCHANGED <<last, it, stages, held, slast, tq, ft, rpc, wr>>

\* await deleteMany(q) on the source answers (lines 182-183): whatever
\* matches the filter now is removed, and the call returns
MoveDelete(m) ==
  /\ mv[m].pc = "delete"
  /\ db' = [db EXCEPT ![mv[m].src] = deleteMany(@, mv[m].q)]
  /\ mv' = [mv EXCEPT ![m].pc = "done"]
  /\ UNCHANGED <<last, it, stages, held, slast, tq, ft, rpc, wr>>

\* the process stops between two store calls: every running move() ends there
MoveCrash ==
  /\ \E m \in Movers : MoveBusy(m)
  /\ mv' = [m \in Movers |-> IF MoveBusy(m) THEN [mv[m] EXCEPT !.pc = "crashed"] ELSE mv[m]]
  /\ UNCHANGED <<db, last, it, stages, held, slast, tq, ft, rpc, wr>>

onlyData(d) == [k \in (DOMAIN d) \ {HashKey} |-> d[k]]
holds(coll, d) == \E i \in 1..Len(coll) : coll[i] = d

\* ------------------------------------- MigrateClientImpl.find and traverse
\* options is a function on a subset of {"limit", "sort"}; no options is the
\* empty function
findCursor(options) ==
  LET c1 == IF Has(options, "limit") THEN [NoLimit EXCEPT !.limit = options["limit"]]
            ELSE NoLimit
  IN  IF Has(options, "sort")
      THEN [c1 EXCEPT !.sort = [key \in DOMAIN options["sort"] |->
                                  IF options["sort"][key] = Ascending THEN 1 ELSE -1]]
      ELSE c1

\* find(): the whole result of the cursor
find(coll, query, options) == cursorDocs(coll, translateQuery(query), findCursor(options))

traverseCursor(options) ==
  LET c1 == IF Has(options, "limit") THEN [NoLimit EXCEPT !.limit = options["limit"]]
            ELSE NoLimit
  IN  IF Has(options, "sort")
      THEN [c1 EXCEPT !.sort = [key \in DOMAIN options["sort"] |->
                                  IF options["sort"][key] = Ascending THEN 1 ELSE -1]]
      ELSE c1

\* the next(size) calls on the iterator that may run together: next() gives
\* the event loop back at every hasNext() and next() of the cursor
Consumers == {"n1", "n2"}
Resting == [pc |-> "idle"]

\* what the iterator's cursor has yet to deliver: nothing once it is closed
\* or dead; the store is asked when the cursor is first read
iterRest ==
  IF it.st # "open" \/ it.dead THEN <<>>
  ELSE cursorRest(it, db[it.domain], translateQuery(it.query), it.cursor)

\* the store rejects the filter when the cursor first asks
iterRejected ==
  it.st = "open" /\ ~it.dead /\ ~it.fetched /\ ~filterValid(translateQuery(it.query))

\* mutant: the loop pulls one document too many
pullMore_inclusive(docs, size) == Len(docs) <= size

\* docs.length < size
pullMore(docs, size) == Len(docs) < size

IterMade == it.st \in {"open", "closed"}
nextBusy(c) == IterMade /\ it.calls[c].pc \in {"hasNext", "next"}

\* the call returns (or raises): what it hands to its caller, the documents
\* it had pulled and does not hand over, and whether a store fault hit it
nextEnds(call, res, hit) ==
  [pc |-> "done", size |-> call.size, res |-> res,
   docs |-> IF res = "docs" THEN call.docs ELSE <<>>,
   lost |-> IF res = "docs" THEN <<>> ELSE call.docs, hit |-> hit]

\* traverse() (lines 75-89): the cursor is made and the iterator returned; the
\* store is not asked.  The model follows one iterator from its creation on.
Traverse(domain, query, options) ==
  /\ ~IterMade
  /\ it' = [st |-> "open", domain |-> domain, query |-> query, options |-> options,
            cursor |-> traverseCursor(options), fetched |-> FALSE, buf |-> <<>>,
            pos |-> 0, total |-> 0, faulted |-> FALSE, dead |-> FALSE,
            closes |-> 0, closed |-> "none", mixed |-> FALSE,
            calls |-> [c \in Consumers |-> Resting]]
  /\ UNCHANGED <<db, last, mv, stages, held, slast, tq, ft, rpc, wr>>

\* next(size) up to its first await (lines 91-92)
IterNext(c, size) ==
  /\ IterMade
  /\ ~nextBusy(c)
  /\ it' = [it EXCEPT
              !.calls[c] = IF pullMore(<<>>, size)
                           THEN [pc |-> "hasNext", size |-> size, docs |-> <<>>]
                           ELSE nextEnds([size |-> size, docs |-> <<>>], "docs", FALSE),
              !.mixed = @ \/ \E o \in Consumers \ {c} : nextBusy(o)]
  /\ UNCHANGED <<db, last, mv, stages, held, slast, tq, ft, rpc, wr>>

\* await cursor.hasNext() answers (line 92, outside the try): a fault or a
\* rejected filter raises out of next(); false ends the loop; true goes on
\* to cursor.next().  After a fault the driver may have killed the cursor.
IterHasNext(c, fault, kills) ==
  /\ nextBusy(c) /\ it.calls[c].pc = "hasNext"
  /\ ~fault => ~kills
  /\ LET call == it.calls[c]
         rest == iterRest
     IN  it' = IF fault \/ iterRejected
               THEN [it EXCEPT !.calls[c] = nextEnds(call, "raised", fault),
                               !.faulted = @ \/ fault, !.dead = @ \/ kills]
               ELSE IF rest = <<>>
                    THEN [it EXCEPT !.calls[c] = nextEnds(call, "docs", FALSE),
                                    !.total = @ + Len(call.docs),
                                    !.fetched = @ \/ (it.st = "open" /\ ~it.dead),
                                    !.buf = rest]
                    ELSE [it EXCEPT !.calls[c].pc = "next", !.fetched = TRUE, !.buf = rest]
  /\ UNCHANGED <<db, last, mv, stages, held, slast, tq, ft, rpc, wr>>

\* await cursor.next() answers (lines 94-103, inside the try): a fault
\* returns null; null leaves the loop; a document is pushed and the loop
\* condition is tested again (line 92)
IterPull(c, fault, kills) ==
  /\ nextBusy(c) /\ it.calls[c].pc = "next"
  /\ ~fault => ~kills
  /\ LET call == it.calls[c]
         rest == iterRest
         d == cursorNext(rest)
         docs == Append(call.docs, d.doc)
     IN  it' = IF fault
               THEN [it EXCEPT !.calls[c] = nextEnds(call, "null", TRUE),
                               !.faulted = TRUE, !.dead = @ \/ kills]
               ELSE IF d.null
                    THEN [it EXCEPT !.calls[c] = nextEnds(call, "docs", FALSE),
                                    !.total = @ + Len(call.docs)]
                    ELSE IF pullMore(docs, call.size)
                         THEN [it EXCEPT !.calls[c] = [call EXCEPT !.pc = "hasNext",
                                                                   !.docs = docs],
                                         !.buf = Tail(rest), !.pos = @ + 1]
                         ELSE [it EXCEPT !.calls[c] =
                                           nextEnds([call EXCEPT !.docs = docs], "docs", FALSE),
                                         !.total = @ + Len(docs),
                                         !.buf = Tail(rest), !.pos = @ + 1]
  /\ UNCHANGED <<db, last, mv, stages, held, slast, tq, ft, rpc, wr>>

\* cursor.close() of the store's cursor: the cursor is closed and its
\* resources released; on a closed cursor there is nothing left to do
cursorClose(st) == "closed"

\* mutant: close() keeps a flag of its own and refuses a second call
closeOutcome_once(st, fault, kills) ==
  IF fault \/ st = "closed" THEN [st |-> IF kills THEN "closed" ELSE st, res |-> "raised"]
  ELSE [st |-> cursorClose(st), res |-> "closed"]

\* close() (lines 107-109) is await cursor.close() and nothing else: it keeps
\* no state of its own and has no catch, so it raises when the store call
\* rejects; the cursor is then as it was, or closed
closeOutcome(st, fault, kills) ==
  IF fault THEN [st |-> IF kills THEN "closed" ELSE st, res |-> "raised"]
  ELSE [st |-> cursorClose(st), res |-> "closed"]

\* close() is called and answers; closes counts the calls that returned
IterClose(fault, kills) ==
  /\ IterMade
  /\ ~fault => ~kills
  /\ LET r == closeOutcome(it.st, fault, kills)
     IN  it' = [it EXCEPT !.st = r.st, !.closed = r.res,
                         !.closes = IF r.res = "closed" /\ @ < 2 THEN @ + 1 ELSE @]
  /\ UNCHANGED <<db, last, mv, stages, held, slast, tq, ft, rpc, wr>>

Sizes == 0..MaxSize
OptionSet ==
  {<<>>, Field("limit", 1), Field("sort", Field("_id", Ascending)),
   Put(Field("limit", 1), "sort", Field("_id", Descending))}

InitTraverse ==
  /\ db \in {[d \in Domains |-> IF d = "A" THEN c ELSE <<>>] : c \in CollsOf(MaxDocs, {NoHash})}
  /\ last = NoCall
  /\ mv = NoMoves
  /\ it = NoIter
  /\ stages = <<>>
  /\ held = {}
  /\ slast = NoCall
  /\ tq = NoCall /\ ft = NoCall /\ rpc = NoCall /\ wr = NoCall

\* one consumer calls next with any size and meets faults; a second one
\* calls next(1) while a call of the first is running; close is called at
\* any time, and the first close may fail
NextTraverse ==
  \/ \E domain \in Domains, query \in Queries, options \in OptionSet :
       Traverse(domain, query, options)
  \/ \E size \in Sizes : IterNext("n1", size)
  \/ nextBusy("n1") /\ IterNext("n2", 1)
  \/ \E c \in Consumers, fault \in BOOLEAN, kills \in BOOLEAN :
       (fault => c = "n1") /\ IterHasNext(c, fault, kills)
  \/ \E c \in Consumers, fault \in BOOLEAN, kills \in BOOLEAN :
       (fault => c = "n1") /\ IterPull(c, fault, kills)
  \/ \E fault \in BOOLEAN, kills \in BOOLEAN :
       (fault => (IterMade /\ it.closed = "none")) /\ IterClose(fault, kills)

SpecTraverse == InitTraverse /\ [][NextTraverse]_vars

\* ---------------------------------------------- claims on find and traverse
\* a next call that has returned or raised
nextDone(c) == IterMade /\ it.calls[c].pc = "done"

\* a single consumer on an open iterator met no fault, and its last next
\* call returned an empty result
servedUntilEmpty ==
  /\ IterMade /\ it.st = "open" /\ ~it.faulted /\ ~it.mixed
  /\ filterValid(translateQuery(it.query))
  /\ nextDone("n1") /\ it.calls["n1"].res = "docs" /\ it.calls["n1"].docs = <<>>

\* C8 (as stated): every next(n) returns at most n documents, and with a
\* single consumer (no two next calls running together), no fault and no
\* concurrent write the documents returned by the next calls up to the first
\* empty result number as many as find() returns for the same query and
\* options.
C8_Original ==
  /\ \A c \in Consumers :
       (nextDone(c) /\ it.calls[c].res = "docs") => Len(it.calls[c].docs) <= it.calls[c].size
  /\ servedUntilEmpty => it.total = Len(find(db[it.domain], it.query, it.options))

\* C8 (amended): every next(n) returns at most n documents; next(0) returns
\* an empty result without reading the cursor; with a single consumer, no
\* fault and no concurrent write the documents returned by the next calls up
\* to the first empty result of a next(n) with n >= 1 number as many as
\* find() returns for the same query and options.
C8_TraverseTotal ==
  /\ \A c \in Consumers :
       (nextDone(c) /\ it.calls[c].res = "docs") => Len(it.calls[c].docs) <= it.calls[c].size
  /\ \A c \in Consumers :
       (nextDone(c) /\ it.calls[c].size = 0) => it.calls[c].res = "docs" /\ ~it.calls[c].hit
  /\ (servedUntilEmpty /\ it.calls["n1"].size >= 1)
       => it.total = Len(find(db[it.domain], it.query, it.options))

\* an iterator with a sort option delivered two documents one at a time and
\* then an empty result
C8_Witness ==
  /\ servedUntilEmpty
  /\ it.calls["n1"].size = 1 /\ it.total = 2 /\ Has(it.options, "sort")

\* C9 (as stated): a store fault in any store call of next(n), the has-more
\* check included, makes next return null; next never raises the fault.
C9_FaultGivesNull ==
  \A c \in Consumers : (nextDone(c) /\ it.calls[c].hit) => it.calls[c].res = "null"

StageIds == {"s1"}               \* the stage the single writer calls for
OtherStage == "s0"               \* a stage of another writer
Fields == {"version", "config"}
Undefined == <<"undefined">>     \* the value undefined
V5 == <<"5">>
V7 == <<"7">>
Candidates == {V5, V7, Undefined}
NoState == <<>>                  \* state === undefined

deepEqual(a, b) == a = b

\* attributes[field]: undefined when the field is absent
attr(attributes, field) == IF Has(attributes, field) THEN attributes[field] ELSE Undefined

\* storage.findAll(ctx, core.class.IndexStageState, { stageId })
findAll(store, stageId) ==
  LET ix == SelectIdx(store, [i \in 1..Len(store) |-> store[i].stageId = stageId], 1)
  IN  [j \in 1..Len(ix) |-> store[ix[j]]]

\* [state] = await storage.findAll(...)
firstOf(found) == IF found = <<>> THEN NoState ELSE found[1]

ResultTrue == [t |-> "boolean", v |-> "true"]

\* mutant: the index is returned as a number
ResultStr_number(n) == [t |-> "number", v |-> ToString(n)]

\* `${n}`
ResultStr(n) == [t |-> "string", v |-> ToString(n)]

\* mutant: the index steps down instead of up
newIndexOf_down(attributes) ==
  (IF Has(attributes, "index") THEN attributes["index"] ELSE 0) - 1

\* ((attributes.index as number) ?? 0) + 1
newIndexOf(attributes) ==
  (IF Has(attributes, "index") THEN attributes["index"] ELSE 0) + 1

\* { [field]: newValue, index: newIndex }
dataAttributes(field, newValue, newIndex) ==
  [k \in {field, "index"} |-> IF k = "index" THEN newIndex ELSE newValue]

\* mutant: a record is created on every mismatch
mustCreate_always(state) == TRUE

\* if (state === undefined) after the lookup
mustCreate(state) == state = NoState

\* storage.tx(createTxCreateDoc(..., data, id)): a new record
txCreate(store, id, data) ==
  Append(store, [id |-> id, stageId |-> data.stageId, attributes |-> data.attributes])

\* storage.tx(createTxUpdateDoc(..., state._id, data)): the top-level fields
\* of data replace those of the record
txUpdate(store, id, data) ==
  [i \in 1..Len(store) |->
     IF store[i].id = id
     THEN [store[i] EXCEPT !.stageId = data.stageId, !.attributes = data.attributes]
     ELSE store[i]]

\* generateId(): an id no record has
generateId(store) == Len(store) + 1

\* lines 98-114: what the call decides from the state it has: the result
\* for an unchanged value, and the result and the data for a changed one
loadDecide(state, stageId, field, newValue) ==
  LET attributes == IF state = NoState THEN <<>> ELSE state.attributes
      newIndex == newIndexOf(attributes)
  IN  [equal |-> deepEqual(attr(attributes, field), newValue),
       result |-> IF Has(attributes, "index") THEN ResultStr(attributes["index"])
                  ELSE ResultTrue,
       newIndex |-> newIndex,
       newResult |-> ResultStr(newIndex),
       data |-> [stageId |-> stageId,
                 attributes |-> dataAttributes(field, newValue, newIndex)]]

\* lines 115-132: the tx as the store applies it, and the state returned
loadWrite(store, state, data) ==
  IF mustCreate(state)
  THEN LET id == generateId(store)
       IN  [store |-> txCreate(store, id, data),
            state |-> [id |-> id, stageId |-> data.stageId, attributes |-> data.attributes]]
  ELSE [store |-> txUpdate(store, state.id, data),
        state |-> [state EXCEPT !.stageId = data.stageId, !.attributes = data.attributes]]

NotPassed == <<"never">>
NoneHeld == [cur |-> NoState, old |-> NoState, stale |-> FALSE]

\* the calls that may run together: the function gives the event loop back
\* at findAll (line 96) and at tx (line 117 or 127).  w1 keeps the states its
\* calls return; w2 passes no state.
Writers == {"w1", "w2"}
NoWrite == [by |-> "none"]
NoLoads == [calls |-> [w \in Writers |-> Resting], lastWrite |-> NoWrite]
loadBusy(w) == wr.calls[w].pc \in {"read", "write"}

\* the state a call passes: none, the one the previous call returned, or an
\* older one the caller kept
stateArg(stageId, kind) ==
  CASE kind = "none" -> NoState
    [] kind = "cur" -> held[stageId].cur
    [] kind = "old" -> held[stageId].old

\* the index a state or storage holds for a stage (0 without a record)
indexIn(store, stageId) ==
  LET found == findAll(store, stageId)
  IN  IF found = <<>> THEN 0 ELSE attr(found[1].attributes, "index")

\* the call returns [result, state] (line 134)
loadReturns(w, call, result, wrote, state, mixed) ==
  /\ held' = IF w = "w1"
             THEN [held EXCEPT ![call.stageId].cur = state,
                               ![call.stageId].stale = @ \/ call.kind = "old"]
             ELSE held
  /\ slast' = [op |-> "load", by |-> w, stageId |-> call.stageId, field |-> call.field,
               newValue |-> call.newValue, kind |-> call.kind, pre |-> call.pre,
               prev |-> slast.passed[call.stageId][call.field],
               result |-> result, wrote |-> wrote, mixed |-> mixed,
               passed |-> [slast.passed EXCEPT ![call.stageId][call.field] = call.newValue]]

\* the call is made (lines 87-95).  Without a state it waits for findAll;
\* with a state it decides at once (98-114) and returns or waits for tx.
LoadCall(w, stageId, field, newValue, kind) ==
  LET arg == stateArg(stageId, kind)
      call == [stageId |-> stageId, field |-> field, newValue |-> newValue,
               kind |-> kind, pre |-> stages]
      d == loadDecide(arg, stageId, field, newValue)
      mixed == slast.mixed \/ \E o \in Writers \ {w} : loadBusy(o)
  IN  /\ ~loadBusy(w)
      /\ kind # "none" => arg # NoState /\ (d.equal \/ d.newIndex <= MaxIndex)
      /\ stages' = stages
      /\ IF arg = NoState
         THEN /\ wr' = [wr EXCEPT !.calls[w] = [pc |-> "read", call |-> call]]
              /\ slast' = [slast EXCEPT !.mixed = mixed]
              /\ held' = held
         ELSE IF d.equal
              THEN /\ wr' = [wr EXCEPT !.calls[w] = [pc |-> "done"]]
                   /\ loadReturns(w, call, d.result, FALSE, arg, mixed)
              ELSE /\ wr' = [wr EXCEPT !.calls[w] =
                               [pc |-> "write", call |-> call, state |-> arg, d |-> d]]
                   /\ slast' = [slast EXCEPT !.mixed = mixed]
                   /\ held' = held
      /\ UNCHANGED <<db, last, mv, it, tq, ft, rpc>>

\* findAll answers (line 96): the call decides (98-114) and returns or waits
\* for tx
LoadRead(w) ==
  /\ wr.calls[w].pc = "read"
  /\ LET call == wr.calls[w].call
         state == firstOf(findAll(stages, call.stageId))
         d == loadDecide(state, call.stageId, call.field, call.newValue)
     IN  /\ d.equal \/ d.newIndex <= MaxIndex
         /\ stages' = stages
         /\ IF d.equal
            THEN /\ wr' = [wr EXCEPT !.calls[w] = [pc |-> "done"]]
                 /\ loadReturns(w, call, d.result, FALSE, state, slast.mixed)
            ELSE /\ wr' = [wr EXCEPT !.calls[w] =
                             [pc |-> "write", call |-> call, state |-> state, d |-> d]]
                 /\ UNCHANGED <<held, slast>>
  /\ UNCHANGED <<db, last, mv, it, tq, ft, rpc>>

\* tx is applied (line 117 or 127) and the call returns (118-134)
LoadWrite(w) ==
  /\ wr.calls[w].pc = "write"
  /\ LET c == wr.calls[w]
         r == loadWrite(stages, c.state, c.d.data)
     IN  /\ stages' = r.store
         /\ wr' = [wr EXCEPT !.calls[w] = [pc |-> "done"]]
         /\ loadReturns(w, c.call, c.d.newResult, TRUE, r.state, slast.mixed)
  /\ UNCHANGED <<db, last, mv, it, tq, ft, rpc>>

\* the caller keeps a copy of the state it holds, to pass it again later
Keep(stageId) ==
  /\ held[stageId].cur # NoState
  /\ held[stageId].old # held[stageId].cur
  /\ held' = [held EXCEPT ![stageId].old = held[stageId].cur]
  /\ UNCHANGED <<db, last, mv, it, stages, slast, tq, ft, rpc, wr>>

InitStage ==
  /\ db = [d \in Domains |-> <<>>]
  /\ last = NoCall
  /\ mv = NoMoves
  /\ it = NoIter
  /\ stages \in {<<>>, <<[id |-> 1, stageId |-> OtherStage,
                           attributes |-> dataAttributes("version", V5, 2)]>>}
  /\ held = [s \in StageIds |-> NoneHeld]
  /\ slast = [op |-> "none", mixed |-> FALSE,
              passed |-> [s \in StageIds |-> [f \in Fields |-> NotPassed]]]
  /\ tq = NoCall /\ ft = NoCall /\ rpc = NoCall /\ wr = NoLoads

\* w1 calls with no state or the state its previous call returned; w2 calls
\* once, while a call of w1 is running, and the two calls that ran together
\* are the last ones
NextStage ==
  \/ \E stageId \in StageIds, field \in Fields, newValue \in Candidates,
        kind \in {"none", "cur"} :
       ~slast.mixed /\ LoadCall("w1", stageId, field, newValue, kind)
  \/ \E stageId \in StageIds, newValue \in {V5, V7} :
       loadBusy("w1") /\ ~slast.mixed /\ LoadCall("w2", stageId, "version", newValue, "none")
  \/ \E w \in Writers : LoadRead(w)
  \/ \E w \in Writers : LoadWrite(w)

SpecStage == InitStage /\ [][NextStage]_vars

\* w1 may also pass an older state it kept between its calls; w2 calls once,
\* while a call of w1 waits for findAll
NextStageCache ==
  \/ \E stageId \in StageIds, field \in Fields, newValue \in Candidates,
        kind \in {"none", "cur", "old"} :
       ~slast.mixed /\ LoadCall("w1", stageId, field, newValue, kind)
  \/ \E stageId \in StageIds :
       /\ wr.calls["w1"].pc = "read" /\ ~slast.mixed
       /\ LoadCall("w2", stageId, "version", V7, "none")
  \/ \E w \in Writers : LoadRead(w)
  \/ \E w \in Writers : LoadWrite(w)
  \/ \E stageId \in StageIds : ~loadBusy("w1") /\ ~slast.mixed /\ Keep(stageId)

SpecStageCache == InitStage /\ [][NextStageCache]_vars

\* -------------------------------------------- claims on loadIndexStageStage
TheStage == CHOOSE s \in StageIds : TRUE
attrsIn(store, stageId) ==
  LET found == findAll(store, stageId) IN IF found = <<>> THEN <<>> ELSE found[1].attributes
called(stageId) == \E f \in Fields : slast.passed[stageId][f] # NotPassed
written(stageId) == \E f \in Fields : slast.passed[stageId][f] \notin {NotPassed, Undefined}

\* C2 (as stated): a call whose candidate is deep-equal to the value last
\* passed for the field issues no write and leaves the stored index as it
\* was; a call whose candidate differs from it raises the stored index by
\* exactly 1 and stores the candidate under the field; calls for other fields
\* may come in between.  Read for calls made one after the other.
C2_LastPassedDecides ==
  (slast.op = "load" /\ slast.prev # NotPassed /\ ~slast.mixed) =>
    IF deepEqual(slast.newValue, slast.prev)
    THEN /\ ~slast.wrote
         /\ indexIn(stages, slast.stageId) = indexIn(slast.pre, slast.stageId)
    ELSE /\ indexIn(stages, slast.stageId) = indexIn(slast.pre, slast.stageId) + 1
         /\ attr(attrsIn(stages, slast.stageId), slast.field) = slast.newValue

\* C3 (as stated): the stored index of a stage never decreases across a call,
\* whether the call passes no state or any state returned earlier, calls
\* being made one after the other.
C3_Original ==
  (slast.op = "load" /\ ~slast.mixed) =>
    indexIn(stages, slast.stageId) >= indexIn(slast.pre, slast.stageId)

\* C3 (amended): in a sequence of calls made one after the other, each of
\* which passes no state or the state the call before it returned, the stored
\* index of the stage never decreases across a call.
C3_IndexMonotone ==
  (slast.op = "load" /\ ~slast.mixed /\ ~held[slast.stageId].stale) =>
    indexIn(stages, slast.stageId) >= indexIn(slast.pre, slast.stageId)

\* a call passing the state of the call before it wrote index 3
C3_Witness ==
  /\ slast.op = "load" /\ slast.kind = "cur" /\ slast.wrote /\ ~slast.mixed
  /\ ~held[slast.stageId].stale
  /\ indexIn(slast.pre, slast.stageId) = 2 /\ indexIn(stages, slast.stageId) = 3

\* C4 (as stated): from the first call for a stage on, calls being made one
\* after the other, the store holds exactly one record of the stage.
C4_Original ==
  \A s \in StageIds : (called(s) /\ ~slast.mixed) => Len(findAll(stages, s)) = 1

\* C4 (amended): with calls made one after the other, the store never holds
\* two records of a stage; it holds exactly one from the first call on whose
\* candidate is not undefined; a call keeps every record there was (same id,
\* same stage) and adds at most one.
C4_OneRecord ==
  /\ \A s \in StageIds : ~slast.mixed =>
       /\ Len(findAll(stages, s)) <= 1
       /\ written(s) => Len(findAll(stages, s)) = 1
  /\ (slast.op = "load" /\ ~slast.mixed) =>
       /\ Len(stages) <= Len(slast.pre) + 1
       /\ \A i \in 1..Len(slast.pre) :
            /\ stages[i].id = slast.pre[i].id
            /\ stages[i].stageId = slast.pre[i].stageId
       /\ \A i, j \in 1..Len(stages) : stages[i].id = stages[j].id => i = j

\* a first call with an undefined candidate created nothing, later calls
\* created the record and updated it to index 2, beside a record of another
\* stage
C4_Witness ==
  /\ slast.op = "load" /\ slast.wrote /\ ~slast.mixed
  /\ Len(findAll(stages, TheStage)) = 1 /\ Len(stages) = 2
  /\ indexIn(stages, TheStage) = 2
  /\ \E f \in Fields : slast.passed[TheStage][f] = Undefined

\* C5 (as stated): the stored attributes hold, for every field passed so
\* far, the last candidate passed for it, and a call for one field leaves the
\* stored values of the other fields as they were.  Read for calls made one
\* after the other.
C5_AttributesKeepFields ==
  /\ \A s \in StageIds, f \in Fields :
       (slast.passed[s][f] # NotPassed /\ ~slast.mixed)
         => attr(attrsIn(stages, s), f) = slast.passed[s][f]
  /\ (slast.op = "load" /\ ~slast.mixed) =>
       \A g \in Fields \ {slast.field} :
         attr(attrsIn(stages, slast.stageId), g) = attr(attrsIn(slast.pre, slast.stageId), g)

\* ------------------------------------------------- the class hierarchy
\* The hierarchy is an input: extends maps a class to its base class (or
\* NoBase), mixins are the classes that are mixins, declared those that
\* declare a full-text context; reflexive says whether the ancestors and
\* descendants of a class include the class itself.
ClassOrder == <<"c1", "c2", "c3", "c4">>
Classes == SeqToSet(ClassOrder)
NoBase == "none"

RECURSIVE baseChain(_, _)
\* the base classes of c, nearest first
baseChain(h, c) ==
  IF h.extends[c] = NoBase THEN <<>>
  ELSE <<h.extends[c]>> \o baseChain(h, h.extends[c])

\* hierarchy.getAncestors(c), root-ward
getAncestors(h, c) == (IF h.reflexive THEN <<c>> ELSE <<>>) \o baseChain(h, c)

RECURSIVE classesWhere(_, _)
\* the classes of s for which P holds, in the order of s
classesWhere(s, P) ==
  IF s = <<>> THEN <<>>
  ELSE (IF P[Head(s)] THEN <<Head(s)>> ELSE <<>>) \o classesWhere(Tail(s), P)

\* hierarchy.getDescendants(c)
getDescendants(h, c) ==
  classesWhere(ClassOrder,
               [d \in Classes |-> (h.reflexive /\ d = c) \/ c \in SeqToSet(baseChain(h, d))])

\* hierarchy.isMixin(c)
isMixin(h, c) == c \in h.mixins

\* the context a class declares
ctxOf(c) ==
  CASE c = "c1" -> [of |-> c, propagate |-> <<"c2", "c3">>, propagateClasses |-> Undefined]
    [] c = "c2" -> [of |-> c, propagate |-> <<"c3">>, propagateClasses |-> <<"c1">>]
    [] c = "c3" -> [of |-> c, propagate |-> Undefined, propagateClasses |-> <<"c1", "c4">>]
    [] c = "c4" -> [of |-> c, propagate |-> <<"c3", "c1">>, propagateClasses |-> <<"c4">>]

\* no context: getFullTextContext(...) === undefined
NoContext == [of |-> NoBase, propagate |-> Undefined, propagateClasses |-> Undefined]

\* getFullTextContext(hierarchy, c): the declared context of c, if any
getFullTextContext(h, c) == IF c \in h.declared THEN ctxOf(c) ELSE NoContext

\* ------------------------------------------------ traverseFullTextContexts
\* Set.add: a set keeps its members in insertion order
setAdd(s, x) == IF x \in SeqToSet(s) THEN s ELSE Append(s, x)

RECURSIVE setAddAll(_, _)
setAddAll(s, xs) == IF xs = <<>> THEN s ELSE setAddAll(setAdd(s, Head(xs)), Tail(xs))

\* if (ftContext !== undefined) op(ftContext): the calls of op so far
visit(visits, ctx) == IF ctx # NoContext THEN Append(visits, ctx) ELSE visits

\* mutant: the mixins below an ancestor are not collected
addMixins_none(desc, h, a) == desc

\* for (const dd of getDescendants(a)) if (isMixin(dd)) desc.add(dd)
addMixins(desc, h, a) ==
  setAddAll(desc, classesWhere(getDescendants(h, a), [d \in Classes |-> isMixin(h, d)]))

RECURSIVE overAncestors(_, _, _)
\* the loop over the ancestors: visits so far and the working set desc
overAncestors(acc, h, as) ==
  IF as = <<>> THEN acc
  ELSE overAncestors([visits |-> visit(acc.visits, getFullTextContext(h, Head(as))),
                      desc |-> addMixins(acc.desc, h, Head(as))],
                     h, Tail(as))

RECURSIVE overDesc(_, _, _)
\* the loop over desc: the context of every mixin in it
overDesc(visits, h, ds) ==
  IF ds = <<>> THEN visits
  ELSE overDesc(IF isMixin(h, Head(ds)) THEN visit(visits, getFullTextContext(h, Head(ds)))
                ELSE visits,
                h, Tail(ds))

\* mutant: the classes of the visited contexts are added to the local set
walkPropagate_visited(visits) == setAddAll(<<>>, [i \in 1..Len(visits) |-> visits[i].of])

\* the local set propagate (new Set, line 146) at the return: no line of the
\* walk adds to it, whatever was visited
walkPropagate(visits) == <<>>

\* the calls of op, in order, and the returned array:
\* Array.from(propagate.values())
traverseFullTextContexts(h, objectClass) ==
  LET desc0 == setAddAll(<<>>, getDescendants(h, objectClass))
      own == visit(<<>>, getFullTextContext(h, objectClass))
      up == overAncestors([visits |-> own, desc |-> desc0], h, getAncestors(h, objectClass))
      visits == overDesc(up.visits, h, up.desc)
  IN  [visits |-> visits, result |-> walkPropagate(visits)]

\* mutant: the visitor appends without looking
propagateAdd_dup(propagate, x) == Append(propagate, x)

\* propagate.add(it)
propagateAdd(propagate, x) == setAdd(propagate, x)

RECURSIVE addEach(_, _)
\* list?.forEach((it) => propagate.add(it))
addEach(propagate, list) ==
  IF list = Undefined \/ list = <<>> THEN propagate
  ELSE addEach(propagateAdd(propagate, Head(list)), Tail(list))

RECURSIVE collect(_, _, _)
\* the visitor of collectPropagate / collectPropagateClasses over the calls
collect(propagate, visits, key) ==
  IF visits = <<>> THEN propagate
  ELSE collect(addEach(propagate, Head(visits)[key]), Tail(visits), key)

collectPropagate(h, objectClass) ==
  collect(<<>>, traverseFullTextContexts(h, objectClass).visits, "propagate")

collectPropagateClasses(h, objectClass) ==
  collect(<<>>, traverseFullTextContexts(h, objectClass).visits, "propagateClasses")

Hierarchies ==
  {[extends |-> [c \in Classes |->
                   CASE c = "c1" -> NoBase [] c = "c2" -> "c1" [] c = "c3" -> b3 [] c = "c4" -> b4],
    mixins |-> m, declared |-> d, reflexive |-> r] :
     b3 \in {"c1", "c2"}, b4 \in {"c1", "c2", "c3"},
     m \in SUBSET {"c3", "c4"}, d \in SUBSET Classes, r \in BOOLEAN}

\* one call of one of the three functions
Contexts(objectClass, op) ==
  /\ ft.op # "none"
  /\ ft' = [op |-> op, h |-> ft.h, objectClass |-> objectClass,
            visits |-> traverseFullTextContexts(ft.h, objectClass).visits,
            walked |-> traverseFullTextContexts(ft.h, objectClass).result,
            result |-> CASE op = "traverse" -> traverseFullTextContexts(ft.h, objectClass).result
                         [] op = "propagate" -> collectPropagate(ft.h, objectClass)
                         [] op = "propagateClasses" -> collectPropagateClasses(ft.h, objectClass)]
  /\ UNCHANGED <<db, last, mv, it, stages, held, slast, tq, rpc, wr>>

InitContexts ==
  /\ db = [d \in Domains |-> <<>>]
  /\ last = NoCall /\ mv = NoMoves /\ it = NoIter
  /\ stages = <<>> /\ held = {} /\ slast = NoCall
  /\ tq = NoCall /\ rpc = NoCall /\ wr = NoCall
  /\ ft \in {[op |-> "input", h |-> h] : h \in Hierarchies}

NextContexts ==
  \E objectClass \in Classes, op \in {"traverse", "propagate", "propagateClasses"} :
    Contexts(objectClass, op)

SpecContexts == InitContexts /\ [][NextContexts]_vars

\* --------------------------------------------- claims on the context walk
ftCalled == ft.op \in {"traverse", "propagate", "propagateClasses"}
visitedAt(c) == {i \in 1..Len(ft.visits) : ft.visits[i].of = c}
below(h, d, a) == a \in SeqToSet(baseChain(h, d))

\* C11: the declared context of objectClass, when it has one, is the first
\* context visited (before that of any ancestor or mixin), and the declared
\* context of every mixin that is a descendant of objectClass or of one of
\* its ancestors is visited at least once.
C11_OwnFirstMixinsVisited ==
  ftCalled =>
    /\ ft.objectClass \in ft.h.declared =>
         /\ ft.visits # <<>>
         /\ ft.visits[1] = ctxOf(ft.objectClass)
         /\ \A c \in Classes \ {ft.objectClass} :
              \A i \in visitedAt(c) : \E j \in visitedAt(ft.objectClass) : j < i
    /\ \A m \in ft.h.mixins \cap ft.h.declared :
         (below(ft.h, m, ft.objectClass)
            \/ \E a \in Classes : below(ft.h, ft.objectClass, a) /\ below(ft.h, m, a))
           => visitedAt(m) # {}

\* the walk from a class with a declared context visited the class first,
\* then an ancestor, then a mixin that is below the ancestor only
C11_Witness ==
  /\ ft.op = "traverse" /\ ft.objectClass = "c2" /\ ft.objectClass \in ft.h.declared
  /\ "c4" \in ft.h.mixins /\ ft.h.extends["c4"] = "c1" /\ ~ft.h.reflexive
  /\ Len(ft.visits) = 3
  /\ ft.visits[1].of = "c2" /\ ft.visits[2].of = "c1" /\ ft.visits[3].of = "c4"

listSet(list) == IF list = Undefined THEN {} ELSE SeqToSet(list)
noDup(s) == \A i, j \in 1..Len(s) : s[i] = s[j] => i = j
visitKey == IF ft.op = "propagate" THEN "propagate" ELSE "propagateClasses"

\* C12: collectPropagate(objectClass) returns, without duplicates, exactly
\* the union of the propagate sets of the contexts traverseFullTextContexts
\* visits for objectClass, and collectPropagateClasses the same for
\* propagateClasses; visiting a context again does not change the result.
C12_PropagateUnion ==
  ft.op \in {"propagate", "propagateClasses"} =>
    /\ noDup(ft.result)
    /\ SeqToSet(ft.result)
         = UNION {listSet(ft.visits[i][visitKey]) : i \in 1..Len(ft.visits)}
    /\ ft.result = collect(<<>>, setAddAll(<<>>, ft.visits), visitKey)

\* collectPropagate over a walk that visited the class's own context twice
\* and an ancestor's context sharing a member with it
C12_Witness ==
  /\ ft.op = "propagate" /\ ft.objectClass = "c2"
  /\ Len(ft.visits) = 3 /\ ft.visits[1] = ft.visits[2] /\ ft.visits[3].of = "c1"
  /\ ft.result = <<"c3", "c2">>

\* ------------------------------------------- specification: translateQuery
MaxLen == 2      \* longest $like pattern and longest probed string

\* the strings over chars of length at most n
Strings(chars, n) == UNION {[1..k -> chars] : k \in 0..n}

Patterns == Strings({"a", "%", "."}, MaxLen)
Probes == Strings({"a", "A", "b", "."}, MaxLen)

\* an operator object with two keys, in insertion order
QOp2(k, op1, v1, op2, v2) == [x \in {k} |-> QObj(<<op1, op2>>, <<v1, v2>>)]

TranslateInputs ==
  {QOp("a", "$like", p) : p \in Patterns}
    \cup {QOp2("a", "$ne", StrX, "$like", p) : p \in Patterns}
    \cup {QEq("a", StrAB), QEq("a", Null), QOp("a", "$ne", StrAB),
          Put(QEq("a", StrAB), "b", QObj(<<"$like">>, <<<<"%", "b">>>>))}

\* translateQuery(query); each field of the filter is then given to the
\* store with a document that holds the probe string under that field: the
\* store rejects a filter with an operator it does not know, else it finds
\* the document or not
TranslateQuery ==
  /\ tq.op = "input"
  /\ LET filter == translateQuery(tq.query)
     IN  tq' = [op |-> "translate", query |-> tq.query, probe |-> tq.probe,
                filter |-> filter,
                rejected |-> [key \in DOMAIN tq.query |->
                                ~filterValid(Field(key, filter[key]))],
                hit |-> [key \in DOMAIN tq.query |->
                           /\ filterValid(Field(key, filter[key]))
                           /\ matches(Field(key, tq.probe), Field(key, filter[key]))]]
  /\ UNCHANGED <<db, last, mv, it, stages, held, slast, ft, rpc, wr>>

InitTranslate ==
  /\ db = [d \in Domains |-> <<>>]
  /\ last = NoCall /\ mv = NoMoves /\ it = NoIter
  /\ stages = <<>> /\ held = {} /\ slast = NoCall
  /\ ft = NoCall /\ rpc = NoCall /\ wr = NoCall
  /\ tq \in {[op |-> "input", query |-> q, probe |-> s] : q \in TranslateInputs, s \in Probes}

NextTranslate == TranslateQuery

SpecTranslate == InitTranslate /\ [][NextTranslate]_vars

\* ------------------------------------------------ claims on translateQuery
RECURSIVE likeMatch(_, _)
\* the $like pattern of the query DSL: '%' stands for any sequence of
\* characters, every other character for itself, letters in either case
likeMatch(pattern, s) ==
  IF pattern = <<>> THEN s = <<>>
  ELSE IF Head(pattern) = "%"
       THEN likeMatch(Tail(pattern), s) \/ (s # <<>> /\ likeMatch(pattern, Tail(s)))
       ELSE s # <<>> /\ lower(Head(pattern)) = lower(Head(s))
              /\ likeMatch(Tail(pattern), Tail(s))

hasLike(value) == value.t = "obj" /\ "$like" \in SeqToSet(value.keys)
likeOf(value) == value.vals[CHOOSE i \in 1..Len(value.keys) : value.keys[i] = "$like"]

\* C13 (as stated): every field whose value is an operator object containing
\* $like is translated to a case-insensitive regular expression anchored at
\* both ends in which each '%' matches any sequence of characters and every
\* other character only itself; every other field is in the result
\* unchanged.
C13_LikeTranslated ==
  tq.op = "translate" =>
    /\ DOMAIN tq.filter = DOMAIN tq.query
    /\ \A key \in DOMAIN tq.query :
         IF hasLike(tq.query[key])
         THEN /\ tq.filter[key].t = "obj"
              /\ tq.filter[key].keys = <<"$regex", "$options">>
              /\ tq.filter[key].vals[2] = <<"i">>
              /\ ~tq.rejected[key]
              /\ tq.hit[key] <=> likeMatch(likeOf(tq.query[key]), tq.probe)
         ELSE tq.filter[key] = tq.query[key]

\* ------------------------------- claims on the result of loadIndexStageStage
stringOf(n) == [t |-> "string", v |-> ToString(n)]
versionAt(v, n) == [k \in {"version", "index"} |-> IF k = "index" THEN n ELSE v]

\* C14: when the candidate equals the stored value of the field the result
\* is the stringified stored index, or the boolean true when no index is
\* stored; when it differs the result is the stringified (stored index,
\* default 0) + 1.  On a fresh stage, value 5 for a field returns "1" and
\* stores {field: 5, index: 1}; 5 again returns "1" and writes nothing; 7
\* then returns "2" and stores {field: 7, index: 2}.  Read for calls made
\* one after the other, no call running together with another.
C14_ResultValue ==
  (slast.op = "load" /\ ~slast.mixed) =>
    LET before == attrsIn(slast.pre, slast.stageId)
        after == attrsIn(stages, slast.stageId)
        index0 == IF Has(before, "index") THEN before["index"] ELSE 0
    IN  /\ IF attr(before, slast.field) = slast.newValue
           THEN /\ slast.result = (IF Has(before, "index") THEN stringOf(before["index"])
                                   ELSE [t |-> "boolean", v |-> "true"])
                /\ ~slast.wrote /\ stages = slast.pre
           ELSE slast.result = stringOf(index0 + 1)
        /\ (slast.field = "version" /\ slast.newValue = V5 /\ before = <<>>)
             => slast.result = stringOf(1) /\ after = versionAt(V5, 1)
        /\ (slast.field = "version" /\ slast.newValue = V5 /\ before = versionAt(V5, 1))
             => slast.result = stringOf(1) /\ after = versionAt(V5, 1)
        /\ (slast.field = "version" /\ slast.newValue = V7 /\ before = versionAt(V5, 1))
             => slast.result = stringOf(2) /\ after = versionAt(V7, 2)

\* the third call of the example: 7 after 5 returned "2" and stored
\* {version: 7, index: 2}
C14_Witness ==
  /\ slast.op = "load" /\ ~slast.mixed /\ slast.field = "version" /\ slast.newValue = V7
  /\ attrsIn(slast.pre, slast.stageId) = versionAt(V5, 1)
  /\ slast.result = stringOf(2)
  /\ attrsIn(stages, slast.stageId) = versionAt(V7, 2)

\* ------------------------------------------- claims on the counts of update
matchedBy(coll, query) == {i \in 1..Len(coll) : matches(coll[i], translateQuery(query))}
\* a document differs from a plain-map update in one of the update's data fields
differs(d, fields) == \E k \in (DOMAIN fields) \ {HashKey} : ~Has(d, k) \/ d[k] # fields[k]

\* C15: update(collection, query, update) is one write over all documents
\* matching query: each of them is rewritten and no other document is;
\* matched is the number of documents matching query and updated the number
\* of documents changed.  A plain-map update over N matching documents whose
\* fields differ from the update returns {matched: N, updated: N}.
C15_UpdateCounts ==
  (last.op = "update" /\ returned(last)) =>
    LET hit == matchedBy(last.pre, last.query)
        now == db[last.domain]
    IN  /\ Len(now) = Len(last.pre)
        /\ last.result.matched = Cardinality(hit)
        /\ last.result.updated = Cardinality({i \in 1..Len(now) : now[i] # last.pre[i]})
        /\ \A i \in 1..Len(now) : i \notin hit => now[i] = last.pre[i]
        /\ \A i \in hit : hashNull(now[i])
        /\ ~isOperator(last.operations) =>
             /\ \A i \in hit : \A k \in DOMAIN last.operations :
                  k # HashKey => now[i][k] = last.operations[k]
             /\ (\A i \in hit : differs(last.pre[i], last.operations))
                  => last.result = [error |-> FALSE, matched |-> Cardinality(hit),
                                    updated |-> Cardinality(hit)]

\* a plain-map update over two matching documents that differ from it
\* returned {matched: 2, updated: 2}
C15_Witness ==
  /\ last.op = "update" /\ returned(last) /\ ~isOperator(last.operations)
  /\ Cardinality(matchedBy(last.pre, last.query)) = 2
  /\ \A i \in matchedBy(last.pre, last.query) : differs(last.pre[i], last.operations)
  /\ last.result.matched = 2 /\ last.result.updated = 2

\* ------------------------- MigrateClientImpl.find, create, delete, deleteMany
\* a store call that fails (StoreIOError): the promise of the call rejects
\* in the store call named at
Fault(at) == [error |-> TRUE, fault |-> TRUE, at |-> at]
Found(docs) == [error |-> FALSE, docs |-> docs]
Done == [error |-> FALSE]

\* mutant: the rejection is caught and the method resolves
awaited_caught(r) == IF r.error THEN [error |-> FALSE] ELSE r

\* await of a store call inside a method without catch: the rejection of the
\* call is the rejection of the method
awaited(r) == r

\* the last call, as the claims read it
Call(op, domain, query, operations, fault, result) ==
  [op |-> op, domain |-> domain, query |-> query, operations |-> operations,
   pre |-> db[domain], touched |-> {}, fault |-> fault, result |-> result]

\* find(): one cursor, toArray()
Find(domain, query, options, fault) ==
  LET filter == translateQuery(query)
      r == IF fault THEN Fault("find")
           ELSE IF ~filterValid(filter) THEN Error
           ELSE Found(find(db[domain], query, options))
  IN  /\ last' = Call("find", domain, query, options, fault, awaited(r))
      /\ UNCHANGED <<db, mv, it, stages, held, slast, tq, ft, rpc, wr>>

RECURSIVE insertMany(_, _)
\* ordered insertMany: the documents before the first rejected one stay
\* inserted
insertMany(coll, docs) ==
  IF docs = <<>> THEN [coll |-> coll, error |-> FALSE]
  ELSE IF ~insertOk(coll, Head(docs)) THEN [coll |-> coll, error |-> TRUE]
       ELSE insertMany(insertOne(coll, Head(docs)), Tail(docs))

\* create(): doc is one document (array FALSE) or an array of documents; an
\* empty array makes no store call
Create(domain, doc, fault) ==
  LET noCall == doc.array /\ doc.docs = <<>>
      r == IF doc.array THEN insertMany(db[domain], doc.docs)
           ELSE IF insertOk(db[domain], doc.docs[1])
                THEN [coll |-> insertOne(db[domain], doc.docs[1]), error |-> FALSE]
                ELSE [coll |-> db[domain], error |-> TRUE]
  IN  /\ fault => ~noCall
      /\ db' = IF fault THEN db ELSE [db EXCEPT ![domain] = r.coll]
      /\ last' = Call("create", domain, <<>>, doc, fault,
                      awaited(IF fault THEN Fault(IF doc.array THEN "insertMany" ELSE "insertOne")
                              ELSE IF r.error THEN Error ELSE Done))
      /\ UNCHANGED <<mv, it, stages, held, slast, tq, ft, rpc, wr>>

\* deleteOne: the first document the filter matches is removed
deleteOne(coll, filter) ==
  LET ix == matchIdx(coll, filter)
  IN  IF ix = <<>> THEN coll
      ELSE SubSeq(coll, 1, ix[1] - 1) \o SubSeq(coll, ix[1] + 1, Len(coll))

\* delete(): deleteOne({ _id })
Delete(domain, id, fault) ==
  /\ db' = IF fault THEN db ELSE [db EXCEPT ![domain] = deleteOne(@, QEq("_id", id))]
  /\ last' = Call("delete", domain, QEq("_id", id), <<>>, fault,
                  awaited(IF fault THEN Fault("deleteOne") ELSE Done))
  /\ UNCHANGED <<mv, it, stages, held, slast, tq, ft, rpc, wr>>

\* the filter deleteMany() hands to the store: the query as it is
deleteFilter(query) == query

\* deleteMany()
DeleteMany(domain, query, fault) ==
  LET filter == deleteFilter(query)
      ok == ~fault /\ filterValid(filter)
  IN  /\ db' = IF ok THEN [db EXCEPT ![domain] = deleteMany(@, filter)] ELSE db
      /\ last' = Call("deleteMany", domain, query, <<>>, fault,
                      awaited(IF fault THEN Fault("deleteMany") ELSE IF ok THEN Done ELSE Error))
      /\ UNCHANGED <<mv, it, stages, held, slast, tq, ft, rpc, wr>>

\* ------------------------- specification: find, create, delete, deleteMany
NewDocs ==
  {[array |-> FALSE, docs |-> <<mkDoc(1, StrAB, NoHash)>>],
   [array |-> TRUE, docs |-> <<>>],
   [array |-> TRUE, docs |-> <<mkDoc(1, StrAc, Hash1), mkDoc(2, StrAB, NoHash)>>]}

NextClient ==
  \/ \E domain \in Domains, query \in Queries, options \in OptionSet :
       Find(domain, query, options, FALSE)
  \/ \E domain \in Domains, doc \in NewDocs : Create(domain, doc, FALSE)
  \/ \E domain \in Domains, id \in 1..MaxDocs : Delete(domain, id, FALSE)
  \/ \E domain \in Domains, query \in Queries : DeleteMany(domain, query, FALSE)

SpecClient == InitUpdate /\ [][NextClient]_vars

\* ---------------------------------------------------- claims on deleteMany
\* C19 (as stated): deleteMany(collection, query) removes exactly the
\* documents find(collection, query) returns for the same query, whatever
\* the shape of the query (equality, $like, other operator objects), and
\* leaves the other documents of the collection as they were.
C19_DeletesWhatFindFinds ==
  last.op = "deleteMany" =>
    LET found == find(last.pre, last.query, <<>>)
        now == db[last.domain]
    IN  /\ \A i \in 1..Len(found) : ~holds(now, found[i])
        /\ \A i \in 1..Len(last.pre) :
             ~holds(found, last.pre[i]) => holds(now, last.pre[i])
        /\ Len(now) = Len(last.pre) - Len(found)

\* ------------------------------------------------ specification: move
\* a write of another call of the client that lands between two awaits of a
\* running move()
MoveUpdates == {Field("a", StrX)}
MoveNewDocs == {[array |-> FALSE, docs |-> <<mkDoc(MaxDocs, StrAB, NoHash)>>]}

InitMove ==
  /\ db \in {[d \in Domains |-> IF d = "A" THEN c ELSE b] :
               c \in CollsUpTo(MaxDocs), b \in {<<>>, <<mkDoc(1, StrAc, Hash1)>>}}
  /\ last = NoCall
  /\ mv = NoMoves
  /\ it = NoIter
  /\ stages = <<>>
  /\ held = {}
  /\ slast = NoCall
  /\ tq = NoCall /\ ft = NoCall /\ rpc = NoCall /\ wr = NoCall

\* the second move() is made while the first is running or after it; one
\* other call of the client is made and answered while the first is running
NextMove ==
  \/ \E s \in Domains, t \in Domains, query \in Queries :
       mv["m1"].pc = "idle" /\ MoveStart("m1", s, query, t)
  \/ \E s \in Domains :
       /\ mv["m1"].pc # "idle" /\ mv["m2"].pc = "idle"
       /\ MoveStart("m2", s, QAll, CHOOSE t \in Domains : t # s)
  \/ \E m \in Movers : MoveNext(m)
  \/ \E m \in Movers : MoveInsert(m)
  \/ \E m \in Movers : MoveDelete(m)
  \/ MoveCrash
  \/ \E operations \in MoveUpdates :
       MoveBusy("m1") /\ last = NoCall /\ Update("A", QAll, operations)
  \/ \E doc \in MoveNewDocs :
       MoveBusy("m1") /\ last = NoCall /\ Create("A", doc, FALSE)

SpecMove == InitMove /\ [][NextMove]_vars

\* ------------------------------------------------ claims on move
moveMatched(m) == storeFind(mv[m].pre, mv[m].q)
MoveSeen(m) == mv[m].pc \notin {"idle"}
\* no other call of the client has run beside move() m
moveAlone(m) == last = NoCall /\ \A o \in Movers \ {m} : mv[o].pc = "idle"

\* C6: after move(A, query, B) returns, no other call having run beside it,
\* no document matching query remains in A, every document that matched is in
\* B without a freshness marker (so B holds at least as many such documents
\* as matched), and matched and updated both equal the number of documents
\* inserted into B.
C6_MoveResult ==
  \A m \in Movers :
    (mv[m].pc = "done" /\ moveAlone(m)) =>
      LET c == mv[m]
          was == moveMatched(m)
      IN  /\ storeFind(db[c.src], c.q) = <<>>
          /\ \A i \in 1..Len(was) : holds(db[c.tgt], onlyData(was[i]))
          /\ Cardinality({j \in 1..Len(db[c.tgt]) :
                            /\ ~Has(db[c.tgt][j], HashKey)
                            /\ \E i \in 1..Len(was) : db[c.tgt][j] = onlyData(was[i])})
               >= Len(was)
          /\ c.result.matched = Len(db[c.tgt]) - Len(c.preTgt)
          /\ c.result.updated = Len(db[c.tgt]) - Len(c.preTgt)

\* a move between two collections returned after moving two documents, one
\* of which carried a marker
C6_Witness ==
  /\ mv["m1"].pc = "done" /\ moveAlone("m1") /\ mv["m1"].src # mv["m1"].tgt
  /\ mv["m1"].result.matched = 2
  /\ \E i \in 1..Len(moveMatched("m1")) : Has(moveMatched("m1")[i], HashKey)

\* C7: in every state of a move beside which no other call has run (between
\* any two of its store calls, crashed, failed or returned) each document
\* that matched query in the source is in the source or in the target; while
\* any matching document is not yet in the target the source is as it was; a
\* crash after the last insert leaves every one in both.
C7_AtLeastOnce ==
  \A m \in Movers :
    (MoveSeen(m) /\ moveAlone(m)) =>
      LET c == mv[m]
          was == moveMatched(m)
      IN  /\ \A i \in 1..Len(was) :
               holds(db[c.src], was[i]) \/ holds(db[c.tgt], onlyData(was[i]))
          /\ (\E i \in 1..Len(was) : ~holds(db[c.tgt], onlyData(was[i])))
               => db[c.src] = c.pre
          /\ (c.pc = "crashed" /\ c.pos = Len(was)) =>
               \A i \in 1..Len(was) :
                 holds(db[c.src], was[i]) /\ holds(db[c.tgt], onlyData(was[i]))

\* a move crashed after its last insert and before the delete: two documents
\* are in the source and in the target
C7_Witness ==
  /\ mv["m1"].pc = "crashed" /\ moveAlone("m1") /\ mv["m1"].src # mv["m1"].tgt
  /\ mv["m1"].pos = 2 /\ Len(moveMatched("m1")) = 2
  /\ \A i \in 1..2 :
       /\ holds(db[mv["m1"].src], moveMatched("m1")[i])
       /\ holds(db[mv["m1"].tgt], onlyData(moveMatched("m1")[i]))

\* ------------------------------------------------ store faults in the client
\* try { ... } finally { log when slow }: the finally block returns nothing,
\* so the outcome of the try block stands
updateOutcome(r) == r

\* update() whose updateMany call fails
UpdateFault(domain, query, operations) ==
  /\ last' = Call("update", domain, query, operations, TRUE,
                  updateOutcome(awaited(Fault("updateMany"))))
  /\ UNCHANGED <<db, mv, it, stages, held, slast, tq, ft, rpc, wr>>

\* bulk() whose bulkWrite call fails
BulkFault(domain, items) ==
  /\ last' = Call("bulk", domain, <<>>, items, TRUE, awaited(Fault("bulkWrite")))
  /\ UNCHANGED <<db, mv, it, stages, held, slast, tq, ft, rpc, wr>>

\* the store call a running move() waits for fails: cursor.next() in any
\* turn of the loop, insertOne of the document read, deleteMany after the loop
MoveFault(m, at) ==
  /\ mv[m].pc = (CASE at = "next" -> "next"
                   [] at = "insertOne" -> "insert"
                   [] at = "deleteMany" -> "delete")
  /\ mv' = [mv EXCEPT ![m].pc = "failed", ![m].result = awaited(Fault(at))]
  /\ UNCHANGED <<db, last, it, stages, held, slast, tq, ft, rpc, wr>>

FaultQueries == {QAll, QOp("a", "$like", <<"a", "%">>)}
FaultUpdates == {Field("a", StrX), Field("$unset", Field("a", <<>>))}
FaultItems == {<<Item(QEq("a", StrAB), Field("a", StrX))>>}

\* calls on collection A and one move() between A and B; the other calls are
\* made and answered between the store calls of the move() as well, and a
\* deleteMany may succeed there
NextFault ==
  \/ \E query \in FaultQueries, fault \in BOOLEAN : Find("A", query, <<>>, fault)
  \/ \E doc \in NewDocs : Create("A", doc, TRUE)
  \/ \E id \in 1..MaxDocs : Delete("A", id, TRUE)
  \/ \E query \in FaultQueries : DeleteMany("A", query, TRUE)
  \/ MoveBusy("m1") /\ DeleteMany("A", QAll, FALSE)
  \/ \E query \in FaultQueries, operations \in FaultUpdates :
       UpdateFault("A", query, operations)
  \/ \E items \in FaultItems : BulkFault("A", items)
  \/ \E s \in Domains, t \in Domains, query \in FaultQueries :
       mv["m1"].pc = "idle" /\ MoveStart("m1", s, query, t)
  \/ MoveNext("m1")
  \/ MoveInsert("m1")
  \/ MoveDelete("m1")
  \/ \E at \in {"next", "insertOne", "deleteMany"} : MoveFault("m1", at)

InitFault ==
  /\ db \in {[d \in Domains |-> IF d = "A" THEN c ELSE <<>>] : c \in CollsOf(MaxDocs, {Hash1})}
  /\ last = NoCall /\ mv = NoMoves /\ it = NoIter
  /\ stages = <<>> /\ held = {} /\ slast = NoCall
  /\ tq = NoCall /\ ft = NoCall /\ rpc = NoCall /\ wr = NoCall

SpecFault == InitFault /\ [][NextFault]_vars

\* ------------------------------------------------- claims on store faults
\* C16: a store fault in the store call of find, update, bulk, create,
\* delete or deleteMany is the outcome of the call (it is not turned into a
\* result) and the call leaves the collections as they were; a fault of a
\* store call of move() is the outcome of move(): the move makes no further
\* store call (no deleteMany is issued), and no step of a move that fails
\* writes to its source, so the move leaves the source as it was.
C16_FaultPropagates ==
  /\ []((last.op # "none" /\ last.fault) =>
          /\ last.result.error /\ last.result.fault
          /\ last.result.at
               = (CASE last.op = "find" -> "find"
                    [] last.op = "update" -> "updateMany"
                    [] last.op = "bulk" -> "bulkWrite"
                    [] last.op = "create" ->
                         IF last.operations.array THEN "insertMany" ELSE "insertOne"
                    [] last.op = "delete" -> "deleteOne"
                    [] last.op = "deleteMany" -> "deleteMany"))
  /\ [](\A m \in Movers : mv[m].pc = "failed" => mv[m].result.error)
  /\ [][(mv' = mv /\ last'.op # "none" /\ last'.fault) => db' = db]_vars
  /\ [][\A m \in Movers :
          (MoveBusy(m) /\ mv'[m] # mv[m] /\ mv'[m].pc # "done" /\ mv[m].src # mv[m].tgt)
            => db'[mv[m].src] = db[mv[m].src]]_vars
  /\ [][\A m \in Movers : (MoveBusy(m) /\ mv'[m].pc = "failed") => db' = db]_vars
  /\ [][\A m \in Movers :
          (mv[m].pc = "failed" /\ mv'[m].pc = "failed") => mv'[m] = mv[m]]_vars

\* a move between two collections copied one document carrying a marker and
\* then failed on the insert of the second, which it had read; before it an
\* update call had failed
C16_Witness ==
  /\ mv["m1"].pc = "failed" /\ mv["m1"].src # mv["m1"].tgt
  /\ mv["m1"].result = [error |-> TRUE, fault |-> TRUE, at |-> "insertOne"]
  /\ mv["m1"].pos = 1 /\ Len(moveMatched("m1")) = 2
  /\ db[mv["m1"].src] = mv["m1"].pre
  /\ last.op = "update" /\ last.fault /\ last.result.fault

\* ------------------------------- loadIndexStageStage calls running together
\* Two callers for one stage and field, neither passing a state.  A call is
\* two store calls, findAll (line 96) and tx (line 117 or 127); the other
\* caller may run between them.
RaceField == "version"

inFlight == Cardinality({w \in Writers : wr.calls[w].pc \in {"read", "write"}})
topIndex ==
  LET found == findAll(stages, TheStage)
  IN  IF found = <<>> THEN 0
      ELSE CHOOSE n \in {attr(found[i].attributes, "index") : i \in 1..Len(found)} :
             \A i \in 1..Len(found) : attr(found[i].attributes, "index") <= n

\* the call is made: lines 87-95
RaceCall(w, newValue) ==
  /\ wr.calls[w].pc \in {"idle", "done"}
  /\ topIndex + inFlight + 1 <= MaxIndex
  /\ wr' = [wr EXCEPT !.calls[w] = [pc |-> "read", newValue |-> newValue]]
  /\ UNCHANGED <<db, last, mv, it, stages, held, slast, tq, ft, rpc>>

\* findAll answers: lines 96-106 and the data of lines 108-114; without a
\* mismatch the call returns
RaceRead(w) ==
  /\ wr.calls[w].pc = "read"
  /\ LET c == wr.calls[w]
         state == firstOf(findAll(stages, TheStage))
         attributes == IF state = NoState THEN <<>> ELSE state.attributes
         newIndex == newIndexOf(attributes)
     IN  wr' = IF ~deepEqual(attr(attributes, RaceField), c.newValue)
               THEN [wr EXCEPT !.calls[w] =
                       [pc |-> "write", newValue |-> c.newValue, state |-> state,
                        data |-> [stageId |-> TheStage,
                                  attributes |-> dataAttributes(RaceField, c.newValue, newIndex)]]]
               ELSE [wr EXCEPT !.calls[w] = [pc |-> "done", newValue |-> c.newValue]]
  /\ UNCHANGED <<db, last, mv, it, stages, held, slast, tq, ft, rpc>>

\* tx is applied: lines 115-133
RaceWrite(w) ==
  /\ wr.calls[w].pc = "write"
  /\ LET c == wr.calls[w]
     IN  /\ stages' = IF mustCreate(c.state)
                      THEN txCreate(stages, generateId(stages), c.data)
                      ELSE txUpdate(stages, c.state.id, c.data)
         /\ wr' = [wr EXCEPT !.calls[w] = [pc |-> "done", newValue |-> c.newValue],
                             !.lastWrite = [by |-> w, attributes |-> c.data.attributes]]
  /\ UNCHANGED <<db, last, mv, it, held, slast, tq, ft, rpc>>

InitRace ==
  /\ db = [d \in Domains |-> <<>>]
  /\ last = NoCall /\ mv = NoMoves /\ it = NoIter
  /\ stages = <<>> /\ held = {} /\ slast = NoCall
  /\ tq = NoCall /\ ft = NoCall /\ rpc = NoCall
  /\ wr = NoLoads

NextRace ==
  \/ \E w \in Writers, newValue \in Candidates : RaceCall(w, newValue)
  \/ \E w \in Writers : RaceRead(w)
  \/ \E w \in Writers : RaceWrite(w)

SpecRace == InitRace /\ [][NextRace]_vars

\* C17 (as stated): when calls for one stage and field run together, two
\* first calls that both find no record included, the last write wins: once
\* no call is in flight the store holds one record of the stage, and its
\* field value and index are those of the write applied last.
C17_LastWriteWins ==
  (inFlight = 0 /\ wr.lastWrite # NoWrite) =>
    /\ Len(findAll(stages, TheStage)) = 1
    /\ findAll(stages, TheStage)[1].attributes = wr.lastWrite.attributes

\* ------------------------------------------- the account service rpc handler
\* serveAccount(measureCtx, methods, productId): the handler of POST / .
\* rpc holds the server (productId, the mongo client: a promise until a
\* handler's await of it resolves) and, for each request being handled, the
\* position of its handler and its response body.
Methods == {"login", "join"}                 \* the keys of methods
\* the function-valued properties of Object.prototype
ProtoFunctions ==
  {"toString", "constructor", "hasOwnProperty", "valueOf", "isPrototypeOf",
   "propertyIsEnumerable", "toLocaleString", "__defineGetter__", "__defineSetter__",
   "__lookupGetter__", "__lookupSetter__"}
\* the names requests carry: the registered ones, one that no object has, and
\* the names that Object.prototype holds
MethodNames == Methods \cup {"nope", "__proto__"} \cup ProtoFunctions
ProductIds == {<<>>, <<"p">>}
NoAuth == Undefined                          \* no authorization header
Bearer == <<"B", "e", "a", "r", "e", "r", " ", "t">>
NoBody == [t |-> "none"]
\* the requests that may be handled at the same time: the handler gives the
\* event loop back at its awaits (lines 124 and 127)
Handlers == {"h1", "h2"}

\* header.authorization?.slice(7) ?? undefined
extractToken(authorization) ==
  IF authorization = NoAuth THEN Undefined
  ELSE SubSeq(authorization, 8, Len(authorization))

\* methods[request.method] on the object literal methods: its own key, else
\* what Object.prototype holds under the name (a function, or the prototype
\* object itself for '__proto__'), else undefined
methodOf(name) ==
  CASE name \in Methods -> [t |-> "function", of |-> "methods", name |-> name]
    [] name \in ProtoFunctions -> [t |-> "function", of |-> "Object.prototype", name |-> name]
    [] name = "__proto__" -> [t |-> "object", of |-> "Object.prototype", name |-> name]
    [] OTHER -> [t |-> "undefined", of |-> "none", name |-> name]

\* JSON.stringify({ id, error: new Status(ERROR, UnknownMethod, { method }) })
unknownMethod(request) ==
  [t |-> "json", id |-> request.id, error |-> "UnknownMethod", method |-> request.method]

\* what an account method answers
methodResult(method, request, token) ==
  [t |-> "result", id |-> request.id, by |-> method, token |-> token]

\* method(measureCtx, db, productId, request, token) for a value that is no
\* account method.  undefined and an object are not callable: a TypeError
\* leaves the handler.  A function of Object.prototype runs with this
\* undefined: toString answers '[object Undefined]', constructor answers its
\* first argument (measureCtx), the others raise a TypeError on this.
callOther(method) ==
  CASE method.t = "function" /\ method.name = "toString" ->
         [raises |-> FALSE, result |-> [t |-> "string", v |-> "[object Undefined]"]]
    [] method.t = "function" /\ method.name = "constructor" ->
         [raises |-> FALSE, result |-> [t |-> "measureCtx"]]
    [] OTHER -> [raises |-> TRUE, result |-> NoBody]

\* a handler that has no request in hand
NoRequest ==
  [pc |-> "idle", request |-> [method |-> "none", id |-> 0], token |-> Undefined,
   method |-> methodOf("none"), body |-> NoBody, result |-> NoBody,
   invoked |-> <<>>, fault |-> "none"]

rpcBusy(h) == rpc.reqs[h].pc \in {"lookup", "client", "invoke", "method"}

\* lines 110-112: a request arrives
RpcReceive(h, request, authorization) ==
  /\ ~rpcBusy(h)
  /\ rpc' = [rpc EXCEPT !.reqs[h] = [NoRequest EXCEPT !.pc = "lookup", !.request = request,
                                                      !.token = extractToken(authorization)]]
  /\ UNCHANGED <<db, last, mv, it, stages, held, slast, tq, ft, wr>>

\* lines 113-121: the method is looked up; when the lookup gives undefined
\* the body is set and the handler goes on
RpcLookup(h) ==
  /\ rpc.reqs[h].pc = "lookup"
  /\ LET method == methodOf(rpc.reqs[h].request.method)
     IN  rpc' = [rpc EXCEPT !.reqs[h].pc = "client",
                            !.reqs[h].method = method,
                            !.reqs[h].body = IF method.t = "undefined"
                                             THEN unknownMethod(rpc.reqs[h].request) ELSE @]
  /\ UNCHANGED <<db, last, mv, it, stages, held, slast, tq, ft, wr>>

\* lines 123-125: a client that is still a promise is awaited and, when it
\* resolves, kept; when the connection failed the await rejects, now and for
\* every later request, and the handler raises
RpcClient(h, connects) ==
  /\ rpc.reqs[h].pc = "client"
  /\ rpc.client # "promise" => connects
  /\ rpc' = IF rpc.client = "ready" \/ (rpc.client = "promise" /\ connects)
            THEN [rpc EXCEPT !.client = "ready", !.reqs[h].pc = "invoke"]
            ELSE [rpc EXCEPT !.client = "rejected", !.reqs[h].pc = "raised",
                             !.reqs[h].fault = "client"]
  /\ UNCHANGED <<db, last, mv, it, stages, held, slast, tq, ft, wr>>

\* lines 126-127: the method is called; an account method answers a promise,
\* which the handler awaits
RpcInvoke(h) ==
  /\ rpc.reqs[h].pc = "invoke"
  /\ LET r == rpc.reqs[h]
     IN  rpc' = IF r.method.of = "methods"
                THEN [rpc EXCEPT !.reqs[h].pc = "method",
                                 !.reqs[h].invoked =
                                    Append(@, [method |-> r.method.name,
                                               productId |-> rpc.productId,
                                               request |-> r.request, token |-> r.token]),
                                 !.reqs[h].result =
                                    methodResult(r.method.name, r.request, r.token)]
                ELSE IF callOther(r.method).raises
                     THEN [rpc EXCEPT !.reqs[h].pc = "raised"]
                     ELSE [rpc EXCEPT !.reqs[h].pc = "method",
                                      !.reqs[h].result = callOther(r.method).result]
  /\ UNCHANGED <<db, last, mv, it, stages, held, slast, tq, ft, wr>>

\* lines 127-128: the await answers; the result becomes the body, or the
\* rejection of an account method leaves the handler
RpcReturn(h, rejects) ==
  /\ rpc.reqs[h].pc = "method"
  /\ rejects => rpc.reqs[h].method.of = "methods"
  /\ rpc' = IF rejects
            THEN [rpc EXCEPT !.reqs[h].pc = "raised", !.reqs[h].fault = "method"]
            ELSE [rpc EXCEPT !.reqs[h].pc = "completed",
                             !.reqs[h].body = rpc.reqs[h].result]
  /\ UNCHANGED <<db, last, mv, it, stages, held, slast, tq, ft, wr>>

Requests == {[method |-> m, id |-> i] : m \in MethodNames, i \in 1..2}

InitRpc ==
  /\ db = [d \in Domains |-> <<>>]
  /\ last = NoCall /\ mv = NoMoves /\ it = NoIter
  /\ stages = <<>> /\ held = {} /\ slast = NoCall
  /\ tq = NoCall /\ ft = NoCall /\ wr = NoCall
  /\ rpc \in {[productId |-> p, client |-> "promise", reqs |-> [h \in Handlers |-> NoRequest]] :
                p \in ProductIds}

\* requests come one after the other to h1; one more request comes to h2
\* while h1 is handling one
NextRpc ==
  \/ \E request \in Requests, authorization \in {NoAuth, Bearer} :
       RpcReceive("h1", request, authorization)
  \/ /\ rpcBusy("h1") /\ rpc.reqs["h2"].pc = "idle"
     /\ RpcReceive("h2", [method |-> "join", id |-> MaxDocs + 1], Bearer)
  \/ \E h \in Handlers : RpcLookup(h)
  \/ \E h \in Handlers, connects \in BOOLEAN : RpcClient(h, connects)
  \/ \E h \in Handlers : RpcInvoke(h)
  \/ \E h \in Handlers, rejects \in BOOLEAN : RpcReturn(h, rejects)

SpecRpc == InitRpc /\ [][NextRpc]_vars

\* ----------------------------------------------- claims on the rpc handler
\* C18 (as stated): a request whose method is not registered gets a body
\* with the request id and an UnknownMethod error, no account method is
\* invoked and the handler completes without raising; a request naming a
\* registered method invokes it exactly once with (ctx, db, productId,
\* request, token) and the method's result is the body.  Read for a server
\* whose database connection succeeded and for account methods that answer.
C18_UnknownMethodAnswered ==
  \A h \in Handlers :
    LET r == rpc.reqs[h]
    IN  /\ (/\ r.pc \in {"invoke", "method", "completed", "raised"} /\ r.fault = "none"
            /\ r.request.method \notin Methods) =>
             /\ r.body = unknownMethod(r.request)
             /\ r.invoked = <<>>
             /\ r.pc # "raised"
        /\ (r.pc \in {"completed", "raised"} /\ r.fault = "none"
            /\ r.request.method \in Methods) =>
             /\ r.pc = "completed"
             /\ r.invoked = <<[method |-> r.request.method, productId |-> rpc.productId,
                               request |-> r.request, token |-> r.token]>>
             /\ r.body = methodResult(r.request.method, r.request, r.token)

\* ------------------------------------------ claims on documents lost by next
\* C20 (as stated): when a read fault occurs in next(n) after the call has
\* pulled k >= 1 documents from the cursor, the call returns null, and those
\* k documents are delivered neither by that call nor by a later one: they
\* are not in what the call returns and not in what the cursor has yet to
\* deliver.
C20_FaultLosesPulled ==
  \A c \in Consumers :
    (nextDone(c) /\ it.calls[c].hit /\ Len(it.calls[c].lost) >= 1) =>
      /\ it.calls[c].res = "null"
      /\ it.calls[c].docs = <<>>
      /\ \A i \in 1..Len(it.calls[c].lost) : ~holds(it.buf, it.calls[c].lost[i])

\* ----------------------------- claims on the result of the context walk
\* C21: traverseFullTextContexts returns an empty array for every class,
\* hierarchy and visitor (a plain visitor and those of the two collectors),
\* however many contexts it visited: the returned array holds no class, and
\* what the caller learns is the sequence of visitor calls.
C21_WalkReturnsEmpty ==
  ftCalled =>
    /\ ft.walked = <<>>
    /\ ft.op = "traverse" => ft.result = <<>>

\* a walk that visited three contexts, one of them with classes to
\* propagate to, returned the empty array
C21_Witness ==
  /\ ft.op = "traverse" /\ Len(ft.visits) = 3 /\ ft.walked = <<>>
  /\ \E i \in 1..Len(ft.visits) : ft.visits[i].propagate \notin {Undefined, <<>>}

====
